---- MODULE Spec2Model ----
(***************************************************************************)
(* Model of src/app.py: the Flask /chat handler (chat, allowed_file,       *)
(* process_audio, process_text, get_anwer_openai, text_to_audio) and the   *)
(* two administrative handlers that mutate the process-wide openai.api_key.*)
(*                                                                         *)
(* Python strings are sequences of pieces (a piece is a character for file *)
(* names and a chunk of text elsewhere); the empty string is << >>.        *)
(* A Python value is a record [t |-> type tag, v |-> pieces].              *)
(***************************************************************************)
EXTENDS Integers, Sequences, FiniteSets, TLC

VARIABLES
    apiKey,      \* openai.api_key (process-wide)
    environKey,  \* os.environ["OPENAI_API_KEY"]
    dotenv,      \* the OPENAI_API_KEY line of ./.env
    adminStatus, \* the last administrative response (status 0: none yet)
    adminOps,    \* number of administrative requests served so far
    hfKey,       \* HUGGING_FACE_API_KEY, read once at start-up
    adminToken,  \* ADMIN_TOKEN, read once at start-up
    uploads,     \* the upload directory: saved name -> bytes
    audioDir,    \* static/audio: the tokens <token>.mp3 written
    pc,          \* position of each worker inside chat()
    req,         \* the request each worker is serving
    data,        \* process_audio: bytes read from filepath
    answer,      \* process_text: return_text
    resp,        \* the response of chat()
    trace        \* per request: what was invoked / what failed (observation only)

vars == <<apiKey, environKey, dotenv, adminStatus, adminOps, hfKey, adminToken, uploads,
          audioDir, pc, req, data, answer, resp, trace>>

----------------------------------------------------------------------------
(* Python values *)

Str(s) == [t |-> "str", v |-> s]
None == [t |-> "none", v |-> << >>]
Int42 == [t |-> "int", v |-> <<"42">>]
EmptyStr == Str(<< >>)

\* Python truthiness of the values used here (None, str, non-zero int)
Truthy(x) == x.t = "int" \/ (x.t = "str" /\ Len(x.v) > 0)

\* Python `a or b`
PyOr(a, b) == IF Truthy(a) THEN a ELSE b

----------------------------------------------------------------------------
(* Configuration and fixed strings *)

Workers == {1, 2}

\* administrative requests served in one run of the model
MaxAdminOps == 2

ALLOWED_EXTENSIONS == {<<"w", "e", "b", "m">>}
UPLOAD_FOLDER == <<"uploads", "/">>

KeyMissingMsg == Str(<<"OpenAI API key missing on server. Set OPENAI_API_KEY and restart the app.">>)
AuthFailedMsg == Str(<<"OpenAI authentication failed. Check OPENAI_API_KEY on the server.">>)
ApiErrorMsg == Str(<<"OpenAI API error. See server logs.">>)
UnexpectedMsg == Str(<<"Unexpected server error while contacting OpenAI.">>)
NotConfiguredMsg == Str(<<"Transcription service not configured.">>)
CouldNotTranscribeMsg == Str(<<"Could not transcribe audio.">>)
TranscriptionFailedMsg == Str(<<"Audio transcription failed.">>)
InvalidRequestMsg == Str(<<"Invalid request">>)
InternalErrorMsg == Str(<<"Internal server error">>)
ProcessTextFailedMsg == Str(<<"Server error processing request. Check server logs.">>)

----------------------------------------------------------------------------
(* String helpers *)

\* str.lower() on the characters that occur in the file names below
Lower(c) ==
    CASE c = "C" -> "c" [] c = "W" -> "w" [] c = "E" -> "e"
      [] c = "B" -> "b" [] c = "M" -> "m" [] c = "X" -> "x"
      [] OTHER -> c

LowerStr(s) == [i \in 1..Len(s) |-> Lower(s[i])]

\* '.' in s
HasDot(s) == \E i \in 1..Len(s) : s[i] = "."

\* s.rsplit('.', 1)[1]: what follows the last dot (s contains a dot)
RSplitLast(s) ==
    LET last == CHOOSE i \in 1..Len(s) :
                    s[i] = "." /\ \A j \in (i+1)..Len(s) : s[j] # "."
    IN  SubSeq(s, last + 1, Len(s))

RECURSIVE LStrip(_, _)
LStrip(s, cs) == IF s # << >> /\ Head(s) \in cs THEN LStrip(Tail(s), cs) ELSE s

RECURSIVE RStrip(_, _)
RStrip(s, cs) ==
    IF s # << >> /\ s[Len(s)] \in cs THEN RStrip(SubSeq(s, 1, Len(s) - 1), cs) ELSE s

\* str.strip(chars); str.strip() strips white space
StripChars(s, cs) == RStrip(LStrip(s, cs), cs)
Strip(s) == StripChars(s, {" "})

\* "_".join(s.split()): runs of white space become one "_", none at the ends
RECURSIVE JoinRuns(_)
JoinRuns(s) ==
    IF s = << >> THEN << >>
    ELSE IF Head(s) = " "
         THEN <<"_">> \o JoinRuns(LStrip(s, {" "}))
         ELSE <<Head(s)>> \o JoinRuns(Tail(s))

SplitJoin(s) == JoinRuns(Strip(s))

SafeChars == {"c", "C", "w", "e", "b", "m", "W", "E", "B", "M", "x", "X", "_", ".", "-"}

\* werkzeug.utils.secure_filename, as called at line 148
secure_filename(fn) ==
    LET spaced == [i \in 1..Len(fn) |-> IF fn[i] = "/" THEN " " ELSE fn[i]]
        kept   == SelectSeq(SplitJoin(spaced), LAMBDA c : c \in SafeChars)
    IN  StripChars(kept, {".", "_"})

allowed_file(filename) ==
    HasDot(filename) /\ LowerStr(RSplitLast(filename)) \in ALLOWED_EXTENSIONS

\* os.path.join(app.config['UPLOAD_FOLDER'], filename)
UploadPath(filename) == UPLOAD_FOLDER \o secure_filename(filename)

----------------------------------------------------------------------------
(* Requests *)

Filenames ==
    { <<"c", ".", "w", "e", "b", "m">>,        \* c.webm
      <<"C", ".", "W", "E", "B", "M">>,        \* C.WEBM
      <<"/", "c", ".", "w", "e", "b", "m">>,   \* /c.webm
      <<"c", ".", "w", "e", "b", "m", ".", "e", "x", "e">>,  \* c.webm.exe
      <<"c", ".", "e", "x", "e">>,             \* c.exe
      <<"w", "e", "b", "m">>,                  \* webm (no dot)
      << >> }                                  \* empty file name

NoFile == [present |-> FALSE, filename |-> << >>, bytes |-> 0]

\* request.files['audio'] of worker r: the bytes are tagged with the request
Files(r) == {NoFile} \cup {[present |-> TRUE, filename |-> fn, bytes |-> r] : fn \in Filenames}

Question == Str(<<"How do I treat leaf rust?">>)

\* a parsed JSON body: get_json(silent=True) is None, a dict or a non-empty list
NoJson == [kind |-> "none", text |-> None]
JsonBodies ==
    { [kind |-> "dict", text |-> None],       \* {}  /  {"other": 1}
      [kind |-> "dict", text |-> EmptyStr],   \* {"text": ""}
      [kind |-> "dict", text |-> Question],   \* {"text": "How ..."}
      [kind |-> "list", text |-> None] }      \* [1]

\* multipart/form requests carry files and form fields, JSON requests a body
Requests(r) ==
    { [audio |-> f, form |-> t, json |-> NoJson] :
          f \in Files(r), t \in {None, EmptyStr, Question} }
    \cup { [audio |-> NoFile, form |-> None, json |-> j] : j \in JsonBodies }

NoRequest == [audio |-> NoFile, form |-> None, json |-> NoJson]

\* variant: the extension check is left out of the condition of line 147
QualifyingAudio_NoExtensionCheck(q) ==
    /\ q.audio.present
    /\ Len(q.audio.filename) > 0

\* lines 145-147: 'audio' in request.files, and f and allowed_file(f.filename)
QualifyingAudio(q) ==
    /\ q.audio.present
    /\ Len(q.audio.filename) > 0
    /\ allowed_file(q.audio.filename)

\* line 154: request.form.get('text') or (request.get_json(silent=True) or {}).get('text')
\* a list has no .get: AttributeError
GetText(q) ==
    IF Truthy(q.form) THEN [raised |-> FALSE, val |-> q.form]
    ELSE IF q.json.kind = "list" THEN [raised |-> TRUE, val |-> None]
    ELSE IF q.json.kind = "dict" THEN [raised |-> FALSE, val |-> q.json.text]
    ELSE [raised |-> FALSE, val |-> None]

----------------------------------------------------------------------------
(* Collaborators *)

Absent == [t |-> "absent", v |-> << >>]

\* what requests.post(...).json() can give back; raise_for_status, a timeout
\* or an undecodable body raise instead
PostOutcomes ==
    { [raised |-> TRUE,  kind |-> "none", text |-> None],
      [raised |-> FALSE, kind |-> "list", text |-> None],
      [raised |-> FALSE, kind |-> "dict", text |-> None],
      [raised |-> FALSE, kind |-> "dict", text |-> EmptyStr],
      [raised |-> FALSE, kind |-> "dict", text |-> Str(<<"hello">>)],
      [raised |-> FALSE, kind |-> "dict", text |-> Int42] }

\* process_audio, lines 178-191
Transcription(out) ==
    IF out.raised THEN TranscriptionFailedMsg
    ELSE LET text == IF out.kind = "dict" THEN out.text ELSE None
         IN  IF ~Truthy(text) THEN CouldNotTranscribeMsg ELSE text

\* exception classes: AuthenticationError and RateLimitError derive from
\* OpenAIError, everything derives from Exception
Bases(cls) ==
    CASE cls = "AuthenticationError" -> {"AuthenticationError", "OpenAIError", "Exception"}
      [] cls = "RateLimitError" -> {"RateLimitError", "OpenAIError", "Exception"}
      [] OTHER -> {cls, "Exception"}

\* what openai.ChatCompletion.create can do: return a completion whose first
\* choice has content (a string, or None), or raise
LLMOutcomes ==
    { [exc |-> "none", content |-> Str(<<" ", "Apply fungicide X", " ">>)],
      [exc |-> "none", content |-> None],
      [exc |-> "AuthenticationError", content |-> None],
      [exc |-> "RateLimitError", content |-> None],
      [exc |-> "ConnectionError", content |-> None] }

\* line 113: None has no .strip: AttributeError
Raised(out) ==
    IF out.exc # "none" THEN out.exc
    ELSE IF out.content.t # "str" THEN "AttributeError" ELSE "none"

\* the except clauses of get_anwer_openai in order, lines 114-122
Handlers ==
    << [cls |-> "AuthenticationError", msg |-> AuthFailedMsg],
       [cls |-> "OpenAIError", msg |-> ApiErrorMsg],
       [cls |-> "Exception", msg |-> UnexpectedMsg] >>

\* variant: the OpenAIError clause is written before the AuthenticationError one
Handle_BaseClassFirst(exc) ==
    IF "OpenAIError" \in Bases(exc) THEN ApiErrorMsg ELSE UnexpectedMsg

\* the first except clause that matches
Handle(exc) ==
    LET i == CHOOSE k \in 1..Len(Handlers) :
                 /\ Handlers[k].cls \in Bases(exc)
                 /\ \A j \in 1..(k-1) : Handlers[j].cls \notin Bases(exc)
    IN  Handlers[i].msg

\* get_anwer_openai, lines 104-122, given what the completion call did
AnswerOf(out) ==
    IF Raised(out) = "none" THEN Str(Strip(out.content.v)) ELSE Handle(Raised(out))

\* variant: the credential check of line 100 never fires
KeyUnset_Never(k) == FALSE

\* line 100: not getattr(openai, "api_key", None)
KeyUnset(k) == ~Truthy(k)

\* line 204: 8 characters from A-Z0-9 (two workers can draw the same token)
Tokens == {"A1B2C3D4", "ZZZZ9999"}

\* line 209: url_for('static', filename='audio/' + res + '.mp3')
UrlFor(res) == Str(<<"/static/", "audio/", res, ".mp3">>)

\* variant: voice_file is set before text_to_audio is called and never reset
ProcessTextResult_VoiceKept(return_text, res, synthOk) ==
    [text |-> return_text, voice |-> UrlFor(res)]

\* variant: no inner try, a synthesis failure reaches the outer except (line 217)
ProcessTextResult_NoInnerTry(return_text, res, synthOk) ==
    IF synthOk THEN [text |-> return_text, voice |-> UrlFor(res)]
    ELSE [text |-> ProcessTextFailedMsg, voice |-> EmptyStr]

\* process_text, lines 205-214: the inner try around text_to_audio.
\* get_anwer_openai returns a str on every path and nothing else in the outer
\* try raises, so the outer except of lines 215-217 is never entered.
ProcessTextResult(return_text, res, synthOk) ==
    [text |-> return_text, voice |-> IF synthOk THEN UrlFor(res) ELSE EmptyStr]

JsonResp(status, text, voice) == [status |-> status, text |-> text, voice |-> voice]
NoResp == JsonResp(0, None, Absent)

NoTrace ==
    [invoked |-> {}, failed |-> {}, transcription |-> Absent, sawKey |-> FALSE,
     sent |-> 0, llmCalls |-> 0, token |-> ""]

----------------------------------------------------------------------------
(* Initial state: the module-level code of app.py, lines 13-34 *)

ApiKeyValue == Str(<<"sk-1">>)
AdminSecret == Str(<<"secret">>)

NoDotenv == [exists |-> FALSE, line |-> None]

Init ==
    /\ dotenv \in {NoDotenv, [exists |-> TRUE, line |-> None],
                   [exists |-> TRUE, line |-> ApiKeyValue]}
    /\ environKey \in {None, ApiKeyValue}
    /\ Truthy(dotenv.line) => environKey = dotenv.line     \* load_dotenv()
    /\ apiKey = environKey                                 \* lines 24, 28-29
    /\ hfKey \in {None, Str(<<"hf-1">>)}
    /\ adminToken \in {None, AdminSecret}
    /\ adminStatus = [status |-> 0, body |-> "none"]
    /\ adminOps = 0
    /\ uploads = << >>
    /\ audioDir = {}
    /\ pc = [r \in Workers |-> "idle"]
    /\ req = [r \in Workers |-> NoRequest]
    /\ data = [r \in Workers |-> 0]
    /\ answer = [r \in Workers |-> None]
    /\ resp = [r \in Workers |-> NoResp]
    /\ trace = [r \in Workers |-> NoTrace]

----------------------------------------------------------------------------
(* Administrative handlers *)

adminVars == <<apiKey, environKey, dotenv, adminStatus, adminOps>>
chatVars == <<uploads, audioDir, pc, req, data, answer, resp, trace>>

\* lines 41-44 and 86-89: the shared-secret check
Unauthorized(token) == Truthy(adminToken) /\ token # adminToken

\* admin_set_openai_key, lines 39-81
admin_set_openai_key(token, payloadKey, writeOk) ==
    /\ adminOps' = adminOps + 1
    /\ IF Unauthorized(token)
       THEN /\ adminStatus' = [status |-> 403, body |-> "unauthorized"]
            /\ UNCHANGED <<apiKey, environKey, dotenv>>
       ELSE LET key == Str(Strip(PyOr(payloadKey, EmptyStr).v))
            IN  IF ~Truthy(key)
                THEN /\ adminStatus' = [status |-> 400, body |-> "no key provided"]
                     /\ UNCHANGED <<apiKey, environKey, dotenv>>
                ELSE /\ apiKey' = key
                     /\ environKey' = key
                     /\ IF writeOk
                        THEN /\ dotenv' = [exists |-> TRUE, line |-> key]
                             /\ adminStatus' = [status |-> 200, body |-> "ok"]
                        ELSE /\ dotenv' = dotenv
                             /\ adminStatus' = [status |-> 200, body |-> "ok, warning"]
    /\ UNCHANGED <<hfKey, adminToken, chatVars>>

\* admin_clear_openai_key, lines 85-94
admin_clear_openai_key(token) ==
    /\ adminOps' = adminOps + 1
    /\ IF Unauthorized(token)
       THEN /\ adminStatus' = [status |-> 403, body |-> "unauthorized"]
            /\ UNCHANGED <<apiKey, environKey>>
       ELSE /\ apiKey' = None
            /\ environKey' = None
            /\ adminStatus' = [status |-> 200, body |-> "cleared"]
    /\ UNCHANGED <<dotenv, hfKey, adminToken, chatVars>>

AdminTokens == {None, AdminSecret, Str(<<"wrong">>)}
PayloadKeys == {None, Str(<<" ">>), Str(<<" ", "sk-1", " ">>)}

AdminSet ==
    /\ adminOps < MaxAdminOps
    /\ \E token \in AdminTokens, k \in PayloadKeys, writeOk \in BOOLEAN :
           admin_set_openai_key(token, k, writeOk)

AdminClear ==
    /\ adminOps < MaxAdminOps
    /\ \E token \in AdminTokens : admin_clear_openai_key(token)

----------------------------------------------------------------------------
(* chat(), lines 142-163, one worker per in-flight request *)

Note(r, fn) == [trace EXCEPT ![r].invoked = @ \cup {fn}]

\* return jsonify(...), status
Return(r, status, text, voice) ==
    /\ resp' = [resp EXCEPT ![r] = JsonResp(status, text, voice)]
    /\ pc' = [pc EXCEPT ![r] = "done"]

\* lines 160-163: the catch-all of chat()
InternalError(r) == Return(r, 500, InternalErrorMsg, Absent)

\* variant: no return at line 152, the transcription goes on as the text of line 154
AudioReturn_FallThrough(r, transcription) ==
    /\ pc' = [pc EXCEPT ![r] = "check"]
    /\ resp' = resp

\* line 152: return jsonify({'text': transcription})
AudioReturn(r, transcription) == Return(r, 200, transcription, Absent)

\* a request out of Q arrives; lines 145-147 and 154-159 read only the request
ChatBeginWith(r, Q) ==
    /\ pc[r] = "idle"
    /\ \E q \in Q :
        /\ req' = [req EXCEPT ![r] = q]
        /\ IF QualifyingAudio(q)
           THEN /\ pc' = [pc EXCEPT ![r] = "save"]
                /\ UNCHANGED resp
           ELSE LET text == GetText(q)
                IN  IF text.raised THEN InternalError(r)
                    ELSE IF Truthy(text.val)
                         THEN /\ pc' = [pc EXCEPT ![r] = "check"]
                              /\ UNCHANGED resp
                         ELSE Return(r, 400, InvalidRequestMsg, Absent)
    /\ UNCHANGED <<adminVars, hfKey, adminToken, uploads, audioDir, data, answer, trace>>

\* line 150: f.save(filepath); it can raise (disk full, no permission)
SaveUpload(r) ==
    /\ pc[r] = "save"
    /\ \E ok \in BOOLEAN :
        IF ok
        THEN LET path == UploadPath(req[r].audio.filename)
             IN  /\ uploads' = [p \in DOMAIN uploads \cup {path} |->
                                    IF p = path THEN req[r].audio.bytes ELSE uploads[p]]
                 /\ pc' = [pc EXCEPT ![r] = "open"]
                 /\ UNCHANGED <<resp, trace>>
        ELSE /\ InternalError(r)
             /\ trace' = [trace EXCEPT ![r].failed = @ \cup {"save"}]
             /\ UNCHANGED uploads
    /\ UNCHANGED <<adminVars, hfKey, adminToken, audioDir, req, data, answer>>

\* process_audio, lines 168-177: the credential check and the read of filepath
ProcessAudioRead(r) ==
    /\ pc[r] = "open"
    /\ IF ~Truthy(hfKey)
       THEN /\ AudioReturn(r, NotConfiguredMsg)
            /\ trace' = [trace EXCEPT ![r].invoked = @ \cup {"process_audio"},
                                      ![r].transcription = NotConfiguredMsg]
            /\ UNCHANGED data
       ELSE \E ok \in BOOLEAN :
            IF ok
            THEN /\ data' = [data EXCEPT ![r] = uploads[UploadPath(req[r].audio.filename)]]
                 /\ pc' = [pc EXCEPT ![r] = "post"]
                 /\ trace' = Note(r, "process_audio")
                 /\ UNCHANGED resp
            ELSE /\ InternalError(r)
                 /\ trace' = [trace EXCEPT ![r].invoked = @ \cup {"process_audio"},
                                           ![r].failed = @ \cup {"read"}]
                 /\ UNCHANGED data
    /\ UNCHANGED <<adminVars, hfKey, adminToken, uploads, audioDir, req, answer>>

\* process_audio, lines 178-191: the POST to the inference endpoint
TranscribePost(r) ==
    /\ pc[r] = "post"
    /\ \E out \in PostOutcomes :
        /\ AudioReturn(r, Transcription(out))
        /\ trace' = [trace EXCEPT ![r].sent = data[r],
                                  ![r].transcription = Transcription(out),
                                  ![r].failed = @ \cup (IF out.raised THEN {"post"} ELSE {})]
    /\ UNCHANGED <<adminVars, hfKey, adminToken, uploads, audioDir, req, data, answer>>

\* process_text -> get_anwer_openai, lines 198 and 100-102
KeyCheck(r) ==
    /\ pc[r] = "check"
    /\ trace' = [trace EXCEPT ![r].invoked = @ \cup {"process_text", "get_anwer_openai"},
                              ![r].sawKey = Truthy(apiKey)]
    /\ IF KeyUnset(apiKey)
       THEN /\ answer' = [answer EXCEPT ![r] = KeyMissingMsg]
            /\ pc' = [pc EXCEPT ![r] = "tts"]
       ELSE /\ pc' = [pc EXCEPT ![r] = "llm"]
            /\ UNCHANGED answer
    /\ UNCHANGED <<adminVars, hfKey, adminToken, uploads, audioDir, req, data, resp>>

\* line 105: openai.ChatCompletion.create(...) is issued and blocks
LLMIssue(r) ==
    /\ pc[r] = "llm"
    /\ pc' = [pc EXCEPT ![r] = "wait"]
    /\ trace' = [trace EXCEPT ![r].llmCalls = @ + 1]
    /\ UNCHANGED <<adminVars, hfKey, adminToken, uploads, audioDir, req, data, answer, resp>>

\* lines 113-122: the call returns or raises
LLMReturn(r) ==
    /\ pc[r] = "wait"
    /\ \E out \in LLMOutcomes :
        /\ answer' = [answer EXCEPT ![r] = AnswerOf(out)]
        /\ trace' = [trace EXCEPT ![r].failed = @ \cup
                        (IF Raised(out) = "none" THEN {} ELSE {Raised(out)})]
    /\ pc' = [pc EXCEPT ![r] = "tts"]
    /\ UNCHANGED <<adminVars, hfKey, adminToken, uploads, audioDir, req, data, resp>>

\* process_text, lines 204-214, text_to_audio, lines 124-135, and line 157
Synthesize(r) ==
    /\ pc[r] = "tts"
    /\ \E res \in Tokens, ok \in BOOLEAN :
        LET out == ProcessTextResult(answer[r], res, ok)
        IN  /\ Return(r, 200, out.text, out.voice)
            /\ audioDir' = IF ok THEN audioDir \cup {res} ELSE audioDir
            /\ trace' = [trace EXCEPT ![r].invoked = @ \cup {"text_to_audio"},
                                      ![r].token = res,
                                      ![r].failed = @ \cup (IF ok THEN {} ELSE {"tts"})]
    /\ UNCHANGED <<adminVars, hfKey, adminToken, uploads, req, data, answer>>

ChatBegin(r) == ChatBeginWith(r, Requests(r))

\* a request with an audio attachment and no text arrives
AudioBegin(r) == ChatBeginWith(r, {q \in Requests(r) : q.audio.present /\ q.form = None})

Chat(r) ==
    \/ ChatBegin(r)
    \/ SaveUpload(r)
    \/ ProcessAudioRead(r)
    \/ TranscribePost(r)
    \/ KeyCheck(r)
    \/ LLMIssue(r)
    \/ LLMReturn(r)
    \/ Synthesize(r)

\* one request in flight, interleaved with the administrative handlers
Next ==
    \/ Chat(1)
    \/ AdminSet
    \/ AdminClear

Spec == Init /\ [][Next]_vars

\* two audio uploads in flight at once
InitUploads ==
    /\ Init
    /\ apiKey = None
    /\ dotenv = NoDotenv
    /\ adminToken = None

NextUploads ==
    \E r \in Workers :
        \/ AudioBegin(r)
        \/ SaveUpload(r)
        \/ ProcessAudioRead(r)
        \/ TranscribePost(r)

SpecUploads == InitUploads /\ [][NextUploads]_vars

TypeOK ==
    /\ pc \in [Workers -> {"idle", "save", "open", "post", "check", "llm", "wait", "tts", "done"}]
    /\ \A r \in Workers : resp[r].status \in {0, 200, 400, 500}

----------------------------------------------------------------------------
(* Properties *)

Done(r) == pc[r] = "done"
Invoked(r, fn) == fn \in trace[r].invoked

\* the request of r carries an audio attachment that allowed_file accepts / rejects
AudioAccepted(r) == req[r].audio.present /\ allowed_file(req[r].audio.filename)
AudioRejected(r) == req[r].audio.present /\ ~allowed_file(req[r].audio.filename)

UploadFailed(r) == trace[r].failed \cap {"save", "read"} # {}

\* C1 as stated: an accepted audio request is always answered with
\* {text: result of process_audio}, and never reaches get_anwer_openai or
\* text_to_audio.
C1_AsStated ==
    \A r \in Workers : AudioAccepted(r) =>
        /\ ~Invoked(r, "get_anwer_openai") /\ ~Invoked(r, "text_to_audio")
        /\ Done(r) => /\ trace[r].transcription # Absent
                      /\ resp[r] = JsonResp(200, trace[r].transcription, Absent)

\* C1 amended: an accepted audio request never reaches get_anwer_openai or
\* text_to_audio; it is answered with {text: result of process_audio}, status
\* 200, unless saving the upload or reading it back raised, and then with
\* {text: "Internal server error"}, status 500.
C1_AudioIsTerminal ==
    \A r \in Workers : AudioAccepted(r) =>
        /\ ~Invoked(r, "get_anwer_openai") /\ ~Invoked(r, "text_to_audio")
        /\ Done(r) =>
             IF UploadFailed(r)
             THEN resp[r] = JsonResp(500, InternalErrorMsg, Absent)
             ELSE /\ trace[r].transcription # Absent
                  /\ resp[r] = JsonResp(200, trace[r].transcription, Absent)

C1_Witness ==
    \E r \in Workers :
        /\ AudioAccepted(r) /\ Done(r) /\ Invoked(r, "process_audio")
        /\ resp[r] = JsonResp(200, Str(<<"hello">>), Absent)

\* C2: when openai.api_key is unset at the check of get_anwer_openai, the
\* answer is the "OpenAI API key missing..." sentinel and the completion call
\* is never issued for that request.
C2_KeyMissingNoCall ==
    \A r \in Workers : (Invoked(r, "get_anwer_openai") /\ ~trace[r].sawKey) =>
        /\ trace[r].llmCalls = 0
        /\ pc[r] \notin {"llm", "wait"}
        /\ answer[r] = KeyMissingMsg

C2_Witness ==
    \E r \in Workers :
        /\ Invoked(r, "get_anwer_openai") /\ ~trace[r].sawKey
        /\ Done(r) /\ resp[r].text = KeyMissingMsg

\* what C3 promises a request with a rejected attachment, where hasText says
\* whether the request counts as carrying text
RejectedOutcome(r, hasText) ==
    /\ ~Invoked(r, "process_audio")
    /\ trace[r].sent = 0
    /\ uploads = << >>
    /\ Done(r) =>
         IF hasText
         THEN /\ Invoked(r, "process_text")
              /\ resp[r] = JsonResp(200, answer[r], resp[r].voice)
              /\ resp[r].voice # Absent
         ELSE resp[r] = JsonResp(400, InvalidRequestMsg, Absent)

\* C3 as stated: a rejected attachment is never transcribed or saved, and the
\* request is handled as a text request if a text field is present, and
\* answered 400 "Invalid request" otherwise.
C3_AsStated ==
    \A r \in Workers : AudioRejected(r) => RejectedOutcome(r, req[r].form # None)

\* C3 amended: a rejected attachment is never transcribed or saved, and the
\* request is handled as a text request if a NON-EMPTY text field is present,
\* and answered 400 "Invalid request" otherwise.
C3_RejectedFallsThrough ==
    \A r \in Workers : AudioRejected(r) => RejectedOutcome(r, Truthy(req[r].form))

C3_Witness ==
    \E r \in Workers :
        /\ AudioRejected(r) /\ HasDot(req[r].audio.filename) /\ Done(r)
        /\ Truthy(req[r].form) /\ resp[r].status = 200

\* C4: every response of chat() has a string text and status 200, 400 or 500,
\* and status 500 carries exactly {text: "Internal server error"}.
C4_WellFormedResponse ==
    \A r \in Workers : Done(r) =>
        /\ resp[r].text.t = "str"
        /\ resp[r].status \in {200, 400, 500}
        /\ resp[r].status = 500 => resp[r] = JsonResp(500, InternalErrorMsg, Absent)

\* C5: in a response of process_text, voice is empty exactly when
\* text_to_audio failed or was not invoked.
C5_VoiceEmptyIffNoSynthesis ==
    \A r \in Workers : (Done(r) /\ Invoked(r, "process_text")) =>
        /\ resp[r].voice.t = "str"
        /\ resp[r].voice = EmptyStr
             <=> ("tts" \in trace[r].failed \/ ~Invoked(r, "text_to_audio"))

C5_Witness ==
    \E r \in Workers :
        /\ Done(r) /\ Invoked(r, "text_to_audio") /\ "tts" \notin trace[r].failed
        /\ resp[r].voice = UrlFor(trace[r].token)
        /\ trace[r].token \in audioDir

\* C6: when text_to_audio raises, the response still is the answer of
\* get_anwer_openai, unchanged, with an empty voice and status 200.
C6_SynthesisFailureKeepsAnswer ==
    \A r \in Workers : (Done(r) /\ "tts" \in trace[r].failed) =>
        /\ Invoked(r, "get_anwer_openai")
        /\ resp[r] = JsonResp(200, answer[r], EmptyStr)
        /\ answer[r] # ProcessTextFailedMsg

C6_Witness ==
    \E r \in Workers :
        /\ Done(r) /\ "tts" \in trace[r].failed
        /\ resp[r] = JsonResp(200, Str(<<"Apply fungicide X">>), EmptyStr)

\* the sentinel C7 expects for what happened inside get_anwer_openai
ExpectedAnswer(r) ==
    IF ~trace[r].sawKey THEN {KeyMissingMsg}
    ELSE IF "AuthenticationError" \in trace[r].failed THEN {AuthFailedMsg}
    ELSE IF "RateLimitError" \in trace[r].failed THEN {ApiErrorMsg}
    ELSE IF trace[r].failed \cap {"ConnectionError", "AttributeError"} # {}
         THEN {UnexpectedMsg}
    ELSE {Str(<<"Apply fungicide X">>)}

\* C7: each failure mode of the LLM call gives its own sentinel, the four
\* sentinels differ pairwise, and the response carries the sentinel with
\* status 200.
C7_DistinctSentinels ==
    /\ Cardinality({KeyMissingMsg, AuthFailedMsg, ApiErrorMsg, UnexpectedMsg}) = 4
    /\ \A r \in Workers : (Invoked(r, "get_anwer_openai") /\ pc[r] \in {"tts", "done"}) =>
        /\ answer[r] \in ExpectedAnswer(r)
        /\ Done(r) => resp[r].status = 200 /\ resp[r].text = answer[r]

C7_Witness ==
    \E r \in Workers :
        /\ Done(r) /\ "AuthenticationError" \in trace[r].failed
        /\ resp[r].status = 200 /\ resp[r].text = AuthFailedMsg

\* C8: a request with no audio attachment and no text field is answered
\* {text: "Invalid request"}, status 400, and nothing is invoked.
C8_NeitherIs400 ==
    \A r \in Workers :
        (Done(r) /\ ~req[r].audio.present /\ req[r].form = None /\ req[r].json.text = None) =>
            /\ resp[r] = JsonResp(400, InvalidRequestMsg, Absent)
            /\ trace[r].invoked = {}

Saved(r) == pc[r] \in {"open", "post"} \/ (Done(r) /\ "save" \notin trace[r].failed /\ AudioAccepted(r))

\* C9: two concurrent audio requests never write the same upload path, and
\* the bytes a request posts to the transcriber are the bytes it uploaded.
C9_UploadsArePerRequest ==
    /\ \A r1, r2 \in Workers : (r1 # r2 /\ Saved(r1) /\ Saved(r2)) =>
           UploadPath(req[r1].audio.filename) # UploadPath(req[r2].audio.filename)
    /\ \A r \in Workers : trace[r].sent \in {0, req[r].audio.bytes}

\* C10 as stated: the completion call is issued, and runs, only while
\* openai.api_key is set.
C10_AsStated ==
    \A r \in Workers : pc[r] = "wait" => Truthy(apiKey)

\* C10 amended: the completion call is issued only by an invocation whose own
\* check of line 100 found the credential set, and at most once; the check and
\* the call are not atomic, so the credential may be cleared in between.
C10_CallOnlyAfterCheckPassed ==
    \A r \in Workers :
        /\ (pc[r] \in {"llm", "wait"} \/ trace[r].llmCalls > 0) => trace[r].sawKey
        /\ trace[r].llmCalls <= 1

C10_Witness ==
    \E r \in Workers : pc[r] = "wait" /\ trace[r].sawKey /\ ~Truthy(apiKey)

====
